---- MODULE Spec2Model ----
(***************************************************************************)
(* A model of get_merged_diffs.py: one run of the script, from reading     *)
(* the environment to main() printing the report.                          *)
(*                                                                         *)
(* Strings the code inspects character by character (the age expression,   *)
(* the switches, the file paths) are sequences of one-character strings.   *)
(* A date string YYYY-MM-DD is the tuple <<y, m, d>>; the empty string is  *)
(* <<>>.  An HTTP body is [lead, wf, val]: `lead` characters in front of a *)
(* document that is well-formed JSON (wf) with parsed value val, or not.   *)
(***************************************************************************)
EXTENDS Integers, Sequences, FiniteSets, TLC

VARIABLES
    env,            \* os.environ, the six OPENDEV_* variables
    now,            \* datetime.now(), as the proleptic ordinal of its date
    pc,             \* position of the run
    cfg,            \* repo_name, status, merged_after, query, dry_run (lines 77-90)
    changes,        \* the parsed search result (line 121)
    ci,             \* index in `changes` of the change being processed (line 138)
    file_paths,     \* the eligible paths of the current change (line 169)
    fi,             \* index in file_paths of the file being fetched (line 177)
    change_data,    \* the record of the current change (line 147)
    result_changes, \* line 136
    result,         \* what get_merged_diffs returned (line 225)
    requests,       \* every requests.get issued so far, with what it answered
    stdout,         \* what was printed to sys.stdout
    stderr          \* what was printed to sys.stderr

vars == <<env, now, pc, cfg, changes, ci, file_paths, fi, change_data,
          result_changes, result, requests, stdout, stderr>>

-----------------------------------------------------------------------------
(* Bounds of the model *)

MaxChanges == 2
MaxAgeLen == 3

-----------------------------------------------------------------------------
(* Strings *)

TrueStr == <<"t", "r", "u", "e">>
OneDay == <<"1", "d">>

LowerChar(c) ==
    CASE c = "T" -> "t"
      [] c = "R" -> "r"
      [] c = "U" -> "u"
      [] c = "E" -> "e"
      [] c = "D" -> "d"
      [] c = "H" -> "h"
      [] c = "M" -> "m"
      [] c = "X" -> "x"
      [] OTHER -> c

Lower(s) == [i \in DOMAIN s |-> LowerChar(s[i])]

Digits == {"0", "1", "2", "3", "4", "5", "6", "7", "8", "9"}

DigitVal(c) ==
    CASE c = "0" -> 0 [] c = "1" -> 1 [] c = "2" -> 2 [] c = "3" -> 3
      [] c = "4" -> 4 [] c = "5" -> 5 [] c = "6" -> 6 [] c = "7" -> 7
      [] c = "8" -> 8 [] c = "9" -> 9

RECURSIVE IntOf(_)
IntOf(s) ==
    IF s = <<>> THEN 0
    ELSE 10 * IntOf(SubSeq(s, 1, Len(s) - 1)) + DigitVal(s[Len(s)])

Startswith(s, c) == Len(s) > 0 /\ s[1] = c

-----------------------------------------------------------------------------
(* The environment *)

Unset == [set |-> FALSE, val |-> <<>>]
Set(v) == [set |-> TRUE, val |-> v]

Getenv(v, default) == IF v.set THEN v.val ELSE default

-----------------------------------------------------------------------------
(* Dates *)

\* strftime('%Y-%m-%d') of the date with proleptic Gregorian ordinal n >= 1
strftime(n) ==
    LET z    == n + 305
        era  == z \div 146097
        doe  == z - era * 146097
        yoe  == (doe - doe \div 1460 + doe \div 36524 - doe \div 146096) \div 365
        doy  == doe - (365 * yoe + yoe \div 4 - yoe \div 100)
        mp   == (5 * doy + 2) \div 153
        d    == doy - (153 * mp + 2) \div 5 + 1
        m    == IF mp < 10 THEN mp + 3 ELSE mp - 9
        y    == yoe + era * 400 + (IF m <= 2 THEN 1 ELSE 0)
    IN  <<y, m, d>>

Max(a, b) == IF a >= b THEN a ELSE b

\* re.match(r'^(\d+)([dhm])$', s): the number and the unit, when s matches
AgeMatch(s) ==
    LET ok == /\ Len(s) >= 2
              /\ s[Len(s)] \in {"d", "h", "m"}
              /\ \A i \in 1..(Len(s) - 1) : s[i] \in Digits
    IN  IF ok
        THEN [matched |-> TRUE, number |-> IntOf(SubSeq(s, 1, Len(s) - 1)),
              unit |-> s[Len(s)]]
        ELSE [matched |-> FALSE, number |-> 0, unit |-> ""]

\* lines 46-65: the number of days of an age expression
AgeDays(age_str) ==
    LET s == IF age_str = <<>> THEN OneDay ELSE age_str
        match == AgeMatch(Lower(s))
    IN  IF ~match.matched THEN 1
        ELSE CASE match.unit = "d" -> match.number
               [] match.unit = "h" -> Max(1, match.number \div 24)
               [] match.unit = "m" -> Max(1, match.number \div (24 * 60))
               [] OTHER -> 1

\* lines 67-69: datetime.now() - timedelta(days=days) raises OverflowError when
\* the timedelta or the resulting date is out of range (date.min has ordinal 1)
parse_age_to_date(age_str, today) ==
    LET days == AgeDays(age_str)
    IN  IF days > 999999999 \/ today - days < 1
        THEN [raised |-> TRUE, date |-> <<>>]
        ELSE [raised |-> FALSE, date |-> strftime(today - days)]

-----------------------------------------------------------------------------
(* Output channels *)

Info(line) == [via |-> "log_message", line |-> line]
Error(line) == [via |-> "print", line |-> line]
Traceback == [via |-> "traceback", line |-> 0]

\* log_message without the test of OPENDEV_LOG
log_message_Always(out, message) == Append(out, message)

\* lines 25-34: `out` after log_message(message)
log_message(out, message) ==
    IF Lower(Getenv(env.OPENDEV_LOG, <<>>)) = TrueStr
    THEN Append(out, message)
    ELSE out

\* json.dumps(result, ensure_ascii=False, indent=2)
Dumps(r) == [json |-> r, ensure_ascii |-> FALSE, indent |-> 2]

-----------------------------------------------------------------------------
(* HTTP *)

PrefixLen == 4

NoBody == [lead |-> 0, wf |-> FALSE, val |-> <<>>]
Json(v) == [lead |-> PrefixLen, wf |-> TRUE, val |-> v]
Garbage == [lead |-> PrefixLen, wf |-> FALSE, val |-> <<>>]
Bare(v) == [lead |-> 0, wf |-> TRUE, val |-> v]

Raised == [exc |-> TRUE, status_code |-> 0, text |-> NoBody]
Http(code, body) == [exc |-> FALSE, status_code |-> code, text |-> body]

\* response.raise_for_status()
RaisesForStatus(resp) == resp.status_code >= 400 /\ resp.status_code < 600

\* json.loads(text[4:]): the first four characters are dropped whatever they are
JsonLoads(text) ==
    IF text.lead = PrefixLen /\ text.wf
    THEN [ok |-> TRUE, val |-> text.val]
    ELSE [ok |-> FALSE, val |-> <<>>]

\* urllib.parse.quote(path, safe='')
Quote(path) == [i \in DOMAIN path |-> IF path[i] = "/" THEN "%2F" ELSE path[i]]

Request(kind, change, path, resp) ==
    [kind |-> kind, change |-> change, path |-> path, resp |-> resp]

-----------------------------------------------------------------------------
(* What the server may answer *)

Change(k) == [id |-> k, subject |-> k, current_revision |-> k]

SearchLists == {[k \in 1..n |-> Change(k)] : n \in 0..MaxChanges}

SearchResponses ==
    {Raised, Http(500, Garbage), Http(200, Garbage), Http(200, Bare(<<>>))}
    \cup {Http(200, Json(l)) : l \in SearchLists}

COMMIT_MSG == <<"/", "C">>
PathA == <<"a">>
PathB == <<"d", "/", "b">>

FileLists == {<<>>, <<COMMIT_MSG>>, <<PathA>>, <<PathB, COMMIT_MSG, PathA>>}

FileListResponses ==
    {Raised, Http(404, Garbage), Http(200, Garbage)}
    \cup {Http(200, Json(l)) : l \in FileLists}

DiffContent == <<"content">>

DiffResponses ==
    {Raised, Http(200, Json(DiffContent)), Http(200, Garbage), Http(404, Garbage)}

-----------------------------------------------------------------------------
(* Records of the report *)

None == [none |-> TRUE]
IsNone(r) == "none" \in DOMAIN r

NoDiff == [kind |-> "None", val |-> <<>>]

\* lines 147-157
ChangeData(change) ==
    [id |-> change.id, subject |-> change.subject,
     revision_id |-> change.current_revision, files |-> <<>>]

WithFile(cd, file_data) ==
    [id |-> cd.id, subject |-> cd.subject, revision_id |-> cd.revision_id,
     files |-> Append(cd.files, file_data)]

\* line 206
WithError(cd) ==
    [id |-> cd.id, subject |-> cd.subject, revision_id |-> cd.revision_id,
     files |-> cd.files, error |-> "RequestException"]

\* the eligible paths in reverse of the enumeration order
EligiblePaths_Reversed(files) ==
    LET kept == SelectSeq(files, LAMBDA p : ~Startswith(p, "/"))
    IN  [j \in DOMAIN kept |-> kept[Len(kept) + 1 - j]]

\* line 169
EligiblePaths(files) == SelectSeq(files, LAMBDA p : ~Startswith(p, "/"))

\* a FileEntry classified by whether the body parses, not by the status code
FileData_ByBody(file_path, resp) ==
    IF JsonLoads(resp.text).ok
    THEN [path |-> file_path, status |-> "success",
          diff |-> [kind |-> "json", val |-> JsonLoads(resp.text).val]]
    ELSE [path |-> file_path, status |-> "error", diff |-> NoDiff,
          error_code |-> resp.status_code]

\* lines 184-199
FileData(file_path, resp) ==
    IF resp.status_code = 200
    THEN [path |-> file_path, status |-> "success",
          diff |-> IF JsonLoads(resp.text).ok
                   THEN [kind |-> "json", val |-> JsonLoads(resp.text).val]
                   ELSE [kind |-> "text", val |-> <<resp.text>>]]
    ELSE [path |-> file_path, status |-> "error", diff |-> NoDiff,
          error_code |-> resp.status_code]

\* lines 96-105
DryRunReport(c) ==
    [query |-> c.query, count |-> 0, repository |-> c.repo_name,
     status |-> c.status, merged_after |-> c.merged_after, timestamp |-> now,
     changes |-> <<>>, dry_run |-> TRUE]

\* line 132
EmptyReport(c) == [changes |-> <<>>, query |-> c.query, count |-> 0]

\* a Report whose count leaves out the changes that carry an error
Report_CountClean(c, rc) ==
    [query |-> c.query,
     count |-> Cardinality({i \in DOMAIN rc : "error" \notin DOMAIN rc[i]}),
     repository |-> c.repo_name, status |-> c.status,
     merged_after |-> c.merged_after, timestamp |-> now, changes |-> rc]

\* lines 211-219
Report(c, rc) ==
    [query |-> c.query, count |-> Len(rc), repository |-> c.repo_name,
     status |-> c.status, merged_after |-> c.merged_after, timestamp |-> now,
     changes |-> rc]

\* a handler that leaves the failed change out of result_changes
HandleRequestException_Dropped(rc, cd) == rc

\* lines 204-206 then 208: the handler's result_changes
HandleRequestException(rc, cd) == Append(rc, WithError(cd))

-----------------------------------------------------------------------------
(* The run *)

NoConfig == [repo_name |-> "", status |-> "", merged_after |-> <<>>,
             query |-> <<>>, dry_run |-> FALSE]
NoChange == [id |-> 0, subject |-> 0, revision_id |-> 0, files |-> <<>>]

Envs(ages) ==
    [OPENDEV_REPO_NAME : {Unset, Set("openstack/nova")},
     OPENDEV_STATUS : {Unset, Set("open")},
     OPENDEV_MERGED_AFTER : {Unset, Set(<<2026, 1, 1>>)},
     OPENDEV_AGE : {Unset} \cup {Set(a) : a \in ages},
     OPENDEV_DRY_RUN : {Unset, Set(<<"T", "r", "u", "e">>)},
     OPENDEV_LOG : {Unset, Set(<<"T", "R", "U", "E">>)}]

InitRun ==
    /\ pc = "configure"
    /\ cfg = NoConfig
    /\ changes = <<>>
    /\ ci = 0
    /\ file_paths = <<>>
    /\ fi = 0
    /\ change_data = NoChange
    /\ result_changes = <<>>
    /\ result = None
    /\ requests = <<>>
    /\ stdout = <<>>
    /\ stderr = <<>>

\* 2026-11-02 and 2024-02-29
NowDays == {739922, 738945}

Million == <<"1", "0", "0", "0", "0", "0", "0", "d">>

Init ==
    /\ env \in Envs({Million})
    /\ now \in {739922}
    /\ InitRun

AgeAlphabet == {"0", "1", "2", "4", "9", "d", "h", "m", "H", "x"}

RECURSIVE Strings(_)
Strings(n) ==
    IF n = 0 THEN {<<>>}
    ELSE Strings(n - 1)
         \cup {Append(s, c) : s \in {t \in Strings(n - 1) : Len(t) = n - 1},
                             c \in AgeAlphabet}

AgeInputs ==
    Strings(MaxAgeLen)
    \cup {<<"1", "4", "4", "0", "m">>, <<"2", "8", "8", "1", "m">>,
          <<"7", "3", "8", "9", "4", "4", "d">>, <<"7", "3", "8", "9", "4", "5", "d">>,
          <<"7", "3", "9", "9", "2", "1", "d">>, <<"7", "3", "9", "9", "2", "2", "d">>,
          Million, <<"9", "9", "9", "9", "9", "9", "9", "9", "9", "h">>}

\* the runs that resolve the recency bound from OPENDEV_AGE
InitAge ==
    /\ env \in [OPENDEV_REPO_NAME : {Unset}, OPENDEV_STATUS : {Unset},
                OPENDEV_MERGED_AFTER : {Unset},
                OPENDEV_AGE : {Unset} \cup {Set(a) : a \in AgeInputs},
                OPENDEV_DRY_RUN : {Unset}, OPENDEV_LOG : {Unset}]
    /\ now \in NowDays
    /\ InitRun

\* an uncaught exception: the interpreter prints the traceback and exits
Crash(err) ==
    /\ pc' = "crashed"
    /\ stderr' = Append(err, Traceback)

\* `return value` from get_merged_diffs
Return(value, err) ==
    /\ pc' = "returned"
    /\ result' = value
    /\ stderr' = err

\* lines 76-105
Configure ==
    /\ pc = "configure"
    /\ LET repo_name == Getenv(env.OPENDEV_REPO_NAME, "openstack/barbican")
           status == Getenv(env.OPENDEV_STATUS, "merged")
           given == Getenv(env.OPENDEV_MERGED_AFTER, <<>>)
           age == Getenv(env.OPENDEV_AGE, OneDay)
           dry_run == Lower(Getenv(env.OPENDEV_DRY_RUN, <<>>)) = TrueStr
           parsed == parse_age_to_date(age, now)
           merged_after == IF given = <<>> THEN parsed.date ELSE given
           query == <<"status:", status, " repo:", repo_name,
                      " mergedafter:", merged_after>>
           c == [repo_name |-> repo_name, status |-> status,
                 merged_after |-> merged_after, query |-> query,
                 dry_run |-> dry_run]
           err1 == log_message(stderr, Info(92))
       IN  IF given = <<>> /\ parsed.raised
           THEN Crash(stderr) /\ UNCHANGED <<cfg, result>>
           ELSE /\ cfg' = c
                /\ IF dry_run
                   THEN Return(DryRunReport(c), log_message(err1, Info(95)))
                   ELSE /\ pc' = "search"
                        /\ stderr' = err1
                        /\ UNCHANGED result
    /\ UNCHANGED <<env, now, changes, ci, file_paths, fi, change_data,
                   result_changes, requests, stdout>>

\* lines 110-136
Search ==
    /\ pc = "search"
    /\ \E resp \in SearchResponses :
        /\ requests' = Append(requests, Request("search", 0, <<>>, resp))
        /\ IF resp.exc \/ RaisesForStatus(resp)
           THEN Return(None, Append(stderr, Error(124))) /\ UNCHANGED <<changes, ci>>
           ELSE IF ~JsonLoads(resp.text).ok
           THEN Return(None, Append(stderr, Error(127))) /\ UNCHANGED <<changes, ci>>
           ELSE /\ changes' = JsonLoads(resp.text).val
                /\ IF changes' = <<>>
                   THEN Return(EmptyReport(cfg), log_message(stderr, Info(131)))
                        /\ UNCHANGED ci
                   ELSE /\ stderr' = log_message(stderr, Info(134))
                        /\ pc' = "files"
                        /\ ci' = 1
                        /\ UNCHANGED result
    /\ UNCHANGED <<env, now, cfg, file_paths, fi, change_data, result_changes,
                   stdout>>

\* line 208 (and 174-175), then the next iteration of the loop of line 138
NextChange(rc) ==
    /\ result_changes' = rc
    /\ IF ci = Len(changes)
       THEN pc' = "assemble" /\ UNCHANGED ci
       ELSE pc' = "files" /\ ci' = ci + 1

\* lines 138-175, and 204-208 when the request raises
FileEnum ==
    /\ pc = "files"
    /\ \E resp \in FileListResponses :
        LET change == changes[ci]
            cd == ChangeData(change)
            err1 == log_message(stderr, Info(142))
            files == JsonLoads(resp.text)
            paths == EligiblePaths(files.val)
        IN  /\ requests' = Append(requests, Request("files", ci, <<>>, resp))
            /\ IF resp.exc \/ RaisesForStatus(resp)
               THEN /\ stderr' = Append(err1, Error(205))
                    /\ change_data' = WithError(cd)
                    /\ NextChange(HandleRequestException(result_changes, cd))
                    /\ UNCHANGED <<file_paths, fi>>
               ELSE IF ~files.ok
               THEN /\ Crash(err1)
                    /\ change_data' = cd
                    /\ UNCHANGED <<ci, file_paths, fi, result_changes>>
               ELSE IF paths = <<>>
               THEN /\ stderr' = log_message(err1, Info(172))
                    /\ change_data' = cd
                    /\ file_paths' = paths
                    /\ NextChange(Append(result_changes, cd))
                    /\ UNCHANGED fi
               ELSE /\ stderr' = err1
                    /\ change_data' = cd
                    /\ file_paths' = paths
                    /\ fi' = 1
                    /\ pc' = "diff"
                    /\ UNCHANGED <<ci, result_changes>>
    /\ UNCHANGED <<env, now, cfg, changes, result, stdout>>

\* lines 177-202, 204-206 when the request raises, and 208 after the last file
DiffFetch ==
    /\ pc = "diff"
    /\ \E resp \in DiffResponses :
        LET file_path == file_paths[fi]
            cd == WithFile(change_data, FileData(file_path, resp))
        IN  /\ requests' = Append(requests,
                                  Request("diff", ci, Quote(file_path), resp))
            /\ IF resp.exc
               THEN /\ stderr' = Append(stderr, Error(205))
                    /\ change_data' = WithError(change_data)
                    /\ NextChange(HandleRequestException(result_changes,
                                                         change_data))
                    /\ UNCHANGED fi
               ELSE /\ stderr' = IF resp.status_code = 200
                                 THEN log_message(stderr, Info(197))
                                 ELSE Append(stderr, Error(200))
                    /\ change_data' = cd
                    /\ IF fi = Len(file_paths)
                       THEN NextChange(Append(result_changes, cd)) /\ UNCHANGED fi
                       ELSE /\ fi' = fi + 1
                            /\ UNCHANGED <<pc, ci, result_changes>>
    /\ UNCHANGED <<env, now, cfg, changes, file_paths, result, stdout>>

\* lines 210-221
Assemble ==
    /\ pc = "assemble"
    /\ Return(Report(cfg, result_changes), stderr)
    /\ UNCHANGED <<env, now, cfg, changes, ci, file_paths, fi, change_data,
                   result_changes, requests, stdout>>

\* lines 223-229
Main ==
    /\ pc = "returned"
    /\ pc' = "done"
    /\ stdout' = IF IsNone(result) THEN stdout ELSE Append(stdout, Dumps(result))
    /\ UNCHANGED <<env, now, cfg, changes, ci, file_paths, fi, change_data,
                   result_changes, result, requests, stderr>>

Next == Configure \/ Search \/ FileEnum \/ DiffFetch \/ Assemble \/ Main

Spec == Init /\ [][Next]_vars

NextAge == Configure

SpecAge == InitAge /\ [][NextAge]_vars

-----------------------------------------------------------------------------
(* Reading the run back from its request log *)

Terminal == pc \in {"done", "crashed"}
Returned == pc \in {"returned", "done"} /\ ~IsNone(result)
DryRunEnabled == Lower(Getenv(env.OPENDEV_DRY_RUN, <<>>)) = TrueStr
LogEnabled == Lower(Getenv(env.OPENDEV_LOG, <<>>)) = TrueStr

RequestFailed(resp) == resp.exc \/ resp.status_code >= 400
BodyParses(resp) == resp.text.lead = 4 /\ resp.text.wf

\* the positions in the log of the requests of one kind for change c
Positions(kind, c) ==
    {k \in DOMAIN requests : requests[k].kind = kind /\ requests[k].change = c}

\* the paths the file-list request of change c enumerated
Enumerated(c) ==
    IF Positions("files", c) = {} THEN <<>>
    ELSE LET resp == requests[CHOOSE k \in Positions("files", c) : TRUE].resp
         IN  IF RequestFailed(resp) \/ ~BodyParses(resp) THEN <<>>
             ELSE resp.text.val

NonSlash(paths) == SelectSeq(paths, LAMBDA p : p = <<>> \/ p[1] # "/")
Eligible(c) == NonSlash(Enumerated(c))

PathsOf(files) == [j \in DOMAIN files |-> files[j].path]

\* the record of change c: appended to result_changes, or still being built
RecordOf(c) == IF c <= Len(result_changes) THEN result_changes[c] ELSE change_data

\* the k-th diff request of change c
NthDiff(c, n) ==
    requests[CHOOSE k \in Positions("diff", c) :
                 Cardinality({j \in Positions("diff", c) : j <= k}) = n]

-----------------------------------------------------------------------------
(* The claims *)

\* C1 (as stated): once the search request has been issued, the run ends with
\* nothing on the primary output exactly when the search failed (transport or
\* HTTP error, or malformed JSON); after any later failure it still ends with
\* exactly one Report written.
C1_OnlySearchFailureAborts ==
    Terminal /\ requests # <<>> =>
        LET search == requests[1].resp
            failed == RequestFailed(search) \/ ~BodyParses(search)
        IN  /\ failed => stdout = <<>>
            /\ ~failed => Len(stdout) = 1 /\ pc = "done"

\* C2 (as stated): in every completed change, whatever way the diff fetch of
\* one eligible file failed (non-200 or the request raising), the diff of every
\* later eligible file was requested and the change holds a FileEntry for it.
C2_SiblingFetchesIndependent ==
    \A c \in 1..Len(result_changes) :
        \A n \in 1..Cardinality(Positions("diff", c)) :
            LET resp == NthDiff(c, n).resp
            IN  resp.exc \/ resp.status_code # 200 =>
                    \A m \in (n + 1)..Len(Eligible(c)) :
                        /\ Cardinality(Positions("diff", c)) >= m
                        /\ \E j \in DOMAIN result_changes[c].files :
                               result_changes[c].files[j].path = Eligible(c)[m]

\* C3: when the file-list request of a change fails with a transport or HTTP
\* error, that change is recorded with an error field and no files, the run
\* goes on to the next change (its file list is requested next), and a Report
\* is assembled from all the changes with the failed one in its place.
C3_FileListFailureContained ==
    \A c \in 1..Len(changes) :
        \A k \in Positions("files", c) :
            RequestFailed(requests[k].resp) =>
                /\ pc # "crashed" \/ Len(requests) > k
                /\ Len(result_changes) >= c
                /\ result_changes[c].id = changes[c].id
                /\ "error" \in DOMAIN result_changes[c]
                /\ result_changes[c].files = <<>>
                /\ Positions("diff", c) = {}
                /\ c < Len(changes) =>
                       IF Len(requests) = k
                       THEN pc = "files" /\ ci = c + 1
                       ELSE requests[k + 1].kind = "files"
                            /\ requests[k + 1].change = c + 1
                /\ c = Len(changes) => pc \in {"assemble", "returned", "done"}
                /\ Returned =>
                       /\ Len(result.changes) = Len(changes)
                       /\ result.changes[c] = result_changes[c]

C3_Witness ==
    /\ pc = "done"
    /\ Len(stdout) = 1
    /\ Len(changes) = 2
    /\ \E k \in Positions("files", 1) : requests[k].resp.exc
    /\ "error" \in DOMAIN result.changes[1]
    /\ Len(result.changes[2].files) = 2
    /\ \A j \in 1..2 : result.changes[2].files[j].status = "success"

\* C4 (as stated): every emitted Report holds every change of the search
\* result, each with a FileEntry for exactly the enumerated paths that do not
\* begin with "/".
C4_ReportHoldsAllEligibleFiles ==
    \A i \in DOMAIN stdout :
        LET report == stdout[i].json
        IN  /\ Len(report.changes) = Len(changes)
            /\ \A c \in DOMAIN report.changes :
                   /\ report.changes[c].id = changes[c].id
                   /\ PathsOf(report.changes[c].files) = Eligible(c)

\* C5: in every Report get_merged_diffs returns, and in the one main() prints,
\* count is the length of the changes collection.
C5_CountIsLength ==
    /\ Returned => result.count = Len(result.changes)
    /\ \A i \in DOMAIN stdout :
           stdout[i].json.count = Len(stdout[i].json.changes)

C5_Witness ==
    /\ Returned
    /\ "repository" \in DOMAIN result
    /\ result.count = 2
    /\ \E c \in 1..2 : "error" \in DOMAIN result.changes[c]

\* C6 (as stated): with the dry-run switch enabled the run issues no request
\* and ends having returned and printed a Report with count 0, no changes, the
\* dry-run marker, and the resolved repository, status and recency bound.
C6_DryRunReport ==
    DryRunEnabled =>
        /\ requests = <<>>
        /\ Terminal =>
               /\ pc = "done"
               /\ stdout = <<Dumps(result)>>
               /\ result.count = 0
               /\ result.changes = <<>>
               /\ "dry_run" \in DOMAIN result /\ result.dry_run
               /\ result.repository =
                      (IF env.OPENDEV_REPO_NAME.set THEN env.OPENDEV_REPO_NAME.val
                       ELSE "openstack/barbican")
               /\ result.status =
                      (IF env.OPENDEV_STATUS.set THEN env.OPENDEV_STATUS.val
                       ELSE "merged")
               /\ result.merged_after = cfg.merged_after
               /\ result.query = <<"status:", result.status, " repo:",
                                   result.repository, " mergedafter:",
                                   result.merged_after>>

\* C7: every diff request answered by an HTTP response has its FileEntry, with
\* status "success" exactly when the status code is 200; for any other code the
\* entry has status "error", that code as error_code and no diff; a success
\* entry carries no error_code.
C7_StatusDecidesFileEntry ==
    \A c \in 1..Len(changes) :
        \A n \in 1..Cardinality(Positions("diff", c)) :
            LET resp == NthDiff(c, n).resp
                files == RecordOf(c).files
            IN  ~resp.exc =>
                    /\ n <= Len(files)
                    /\ files[n].status = "success" <=> resp.status_code = 200
                    /\ resp.status_code # 200 =>
                           /\ files[n].status = "error"
                           /\ "error_code" \in DOMAIN files[n]
                           /\ files[n].error_code = resp.status_code
                           /\ files[n].diff.kind = "None"
                    /\ files[n].status = "success" =>
                           "error_code" \notin DOMAIN files[n]

C7_Witness ==
    /\ pc = "done"
    /\ Len(stdout) = 1
    /\ \E c \in DOMAIN result.changes :
           /\ Len(result.changes[c].files) = 2
           /\ result.changes[c].files[1].status = "error"
           /\ result.changes[c].files[1].error_code = 404
           /\ result.changes[c].files[2].status = "success"
           /\ result.changes[c].files[2].diff.kind = "text"

\* C8 (as stated): with the verbosity switch not enabled the run writes
\* nothing to the secondary channel, whatever fails, and the primary channel
\* only ever holds the Report.
C8_SilentWhenNotVerbose ==
    /\ ~LogEnabled =>
           \A i \in DOMAIN stderr : stderr[i].via \notin {"print", "log_message"}
    /\ \A i \in DOMAIN stdout : stdout[i] = Dumps(result)

\* C8 (amended): with the verbosity switch not enabled no progress message of
\* log_message is written to the secondary channel; what is written there is
\* only the error text of a failed search (lines 124, 127), of a non-200 diff
\* (line 200), of a failed file-list or diff request (line 205), or the
\* traceback of an uncaught exception.  The primary channel holds at most the
\* one serialized Report.
C8_OnlyErrorsWhenNotVerbose ==
    /\ ~LogEnabled =>
           \A i \in DOMAIN stderr :
               \/ stderr[i].via = "print" /\ stderr[i].line \in {124, 127, 200, 205}
               \/ stderr[i].via = "traceback"
    /\ Len(stdout) <= 1
    /\ \A i \in DOMAIN stdout : stdout[i] = Dumps(result) /\ ~IsNone(result)

C8_Witness ==
    /\ ~LogEnabled
    /\ pc = "done"
    /\ Len(stdout) = 1
    /\ \E i \in DOMAIN stderr : stderr[i].line = 200
    /\ \E i \in DOMAIN stderr : stderr[i].line = 205

\* the days the age expression stands for, as the claim C9 states them
ClaimedDays(age) ==
    LET n == Len(age)
        unit == IF n = 0 THEN "" ELSE age[n]
        isNumber == n >= 2 /\ \A i \in 1..(n - 1) : age[i] \in Digits
        number == IntOf(SubSeq(age, 1, n - 1))
    IN  IF isNumber /\ unit \in {"d", "D"} THEN number
        ELSE IF isNumber /\ unit \in {"h", "H"}
        THEN (IF number \div 24 >= 1 THEN number \div 24 ELSE 1)
        ELSE IF isNumber /\ unit \in {"m", "M"}
        THEN (IF number \div 1440 >= 1 THEN number \div 1440 ELSE 1)
        ELSE 1

\* C9 (as stated): resolving the recency bound from the age expression never
\* raises, and the bound is the date ClaimedDays(age) days before now.
C9_AgeResolves ==
    pc # "configure" /\ Getenv(env.OPENDEV_MERGED_AFTER, <<>>) = <<>> =>
        /\ pc # "crashed"
        /\ cfg.merged_after =
               strftime(now - ClaimedDays(Getenv(env.OPENDEV_AGE, <<"1", "d">>)))

\* C10: the first request is the search; then, change by change in the order
\* of the search result, the file-list request of a change is followed by the
\* diff requests of its eligible paths in enumeration order, and the next
\* file-list request is issued only when the change is finished.  The Report
\* lists the changes in search order and each change's files in enumeration
\* order.
C10_PipelineOrder ==
    /\ \A k \in DOMAIN requests :
           LET r == requests[k]
               n == Cardinality({j \in Positions("diff", r.change) : j <= k})
           IN  /\ r.kind = "search" <=> k = 1
               /\ r.kind = "search" => r.change = 0
               /\ r.kind = "files" =>
                      /\ r.change = requests[k - 1].change + 1
                      /\ r.change <= Len(changes)
                      /\ Cardinality(Positions("files", r.change)) = 1
               /\ r.kind = "diff" =>
                      /\ requests[k - 1].kind \in {"files", "diff"}
                      /\ requests[k - 1].change = r.change
                      /\ ~requests[k - 1].resp.exc
                      /\ n <= Len(Eligible(r.change))
                      /\ r.path = Quote(Eligible(r.change)[n])
               /\ k < Len(requests) /\ requests[k + 1].kind = "files" =>
                      \/ r.kind = "search"
                      \/ r.resp.exc
                      \/ n = Len(Eligible(r.change))
    /\ \A c \in DOMAIN result_changes :
           /\ result_changes[c].id = changes[c].id
           /\ \A j \in DOMAIN result_changes[c].files :
                  /\ j <= Len(Eligible(c))
                  /\ result_changes[c].files[j].path = Eligible(c)[j]
    /\ Returned /\ result.changes # <<>> => result.changes = result_changes

C10_Witness ==
    /\ pc = "done"
    /\ Len(stdout) = 1
    /\ Len(result.changes) = 2
    /\ \A c \in 1..2 : PathsOf(result.changes[c].files) = <<PathB, PathA>>
    /\ Len(requests) = 7

====
